---- MODULE Spec2Model ----
(***************************************************************************)
(* Model of backend/posts/views.py and backend/posts/urls.py: the post     *)
(* view set (list, retrieve, create, update, partial_update, destroy) and  *)
(* the two comment views (create; retrieve, update, destroy).              *)
(*                                                                         *)
(* The permission classes, the serializers and the models are imported by  *)
(* views.py from permissions.py, serializers.py and models.py; they are    *)
(* modelled from the specification of the system.                          *)
(***************************************************************************)
EXTENDS Integers, Sequences, FiniteSets, Bags, TLC

VARIABLES
    posts,      \* the Post table: id -> row
    postSeq,    \* the last identifier the Post table handed out
    comments,   \* the Comment table: id -> row
    commentSeq, \* the last identifier the Comment table handed out
    clock,      \* the latest created_at a post was given
    last,       \* the request handled last and its response
    inflight,   \* requests being handled step by step: the bag of requests
                \* between get_object and their write (post creates: slot ->
                \* request state)
    view        \* the view instance of each in-flight request: slot -> attributes

vars == <<posts, postSeq, comments, commentSeq, clock, last, inflight, view>>

----------------------------------------------------------------------------
(* Bounds *)

MaxPosts == 2
MaxComments == 1
MaxRequests == 2

----------------------------------------------------------------------------
(* Callers *)

Anonymous == 0
Users == {1, 2, 3}
StaffUsers == {3}
Callers == Users \cup {Anonymous}

is_authenticated(caller) == caller # Anonymous
is_staff(caller) == caller \in StaffUsers

SAFE_METHODS == {"GET", "HEAD", "OPTIONS"}

\* The status of a request the permission check turned down.
PermissionDenied(caller) ==
    IF is_authenticated(caller) THEN "Forbidden" ELSE "NotAuthenticated"

----------------------------------------------------------------------------
(* Request bodies: a record holding the fields the request supplies *)

PostData ==
    { [title |-> "T", body |-> "B"],
      [title |-> "T", body |-> "B", is_published |-> TRUE],
      [title |-> "", body |-> "B"],
      [is_published |-> TRUE] }

Has(data, f) == f \in DOMAIN data

\* data with field f removed (del validated_data[f])
Without(data, f) == [k \in DOMAIN data \ {f} |-> data[k]]

\* row with the fields of data written over it
Apply(row, data) ==
    [k \in DOMAIN row |-> IF k \in DOMAIN data THEN data[k] ELSE row[k]]

\* Model.save of an instance that has a primary key: UPDATE of every column
\* of the row with that key, INSERT when no row has it
Model_save(table, row) == (row.id :> row) @@ table

\* Model.delete: DELETE by primary key; no row left is no error
Model_delete(table, id) == [i \in DOMAIN table \ {id} |-> table[i]]

\* what a slot remembers of a request: the instance get_object read
Held(req, instance) == [req |-> req, instance |-> instance]

Drop(f, r) == [q \in DOMAIN f \ {r} |-> f[q]]

\* every request is handled by a view instance of its own; at most
\* MaxRequests requests are handled at the same time
Slots == 1..MaxRequests

FreeSlots == Slots \ DOMAIN inflight

\* a request can be taken up: fewer than MaxRequests are between get_object
\* and their write
CanHandle == BagCardinality(inflight) < MaxRequests

\* the requests between get_object and their write
HeldRequests == BagToSet(inflight)

Hold(h) == inflight (+) SetToBag({h})

Release(h) == inflight (-) SetToBag({h})

----------------------------------------------------------------------------
(* permissions.IsAdminOrReadOnly *)

IsAdminOrReadOnly(caller, method, action) ==
    \/ method \in SAFE_METHODS
    \/ is_staff(caller)
    \/ action = "create" /\ is_authenticated(caller)

PostViewSet_permission_classes_AllowAny(caller, method, action) == TRUE

\* permission_classes = [IsAdminOrReadOnly]
PostViewSet_permission_classes(caller, method, action) ==
    IsAdminOrReadOnly(caller, method, action)

----------------------------------------------------------------------------
(* models.Post and serializers.PostWriteSerializer *)

Slugify(title) ==
    CASE title = "T" -> "t"
      [] title = "U" -> "u"
      [] OTHER -> ""

\* Post.save: the slug follows the title.
Post_save(row) == [row EXCEPT !.slug = Slugify(row.title)]

\* PostWriteSerializer.is_valid: title and body are required (unless the
\* update is partial) and may not be blank.
PostWriteSerializer_is_valid(data, partial) ==
    /\ partial \/ (Has(data, "title") /\ Has(data, "body"))
    /\ Has(data, "title") => data.title # ""
    /\ Has(data, "body") => data.body # ""

\* PostWriteSerializer.validated_data: is_published is taken from a staff
\* caller only.
PostWriteSerializer_validated_data(data, caller) ==
    IF is_staff(caller) THEN data ELSE Without(data, "is_published")

----------------------------------------------------------------------------
(* PostViewSet *)

get_queryset_unfiltered(store, caller) == DOMAIN store

\* get_queryset, step 1: the rows the caller may address
get_queryset(store, caller) ==
    IF is_staff(caller)
    THEN DOMAIN store
    ELSE {i \in DOMAIN store : store[i].is_published}

Perms(S) ==
    {s \in [1..Cardinality(S) -> S] :
        \A i, j \in 1..Cardinality(S) : i # j => s[i] # s[j]}

\* get_queryset, action "list": order_by("-created_at"). Rows with equal
\* created_at come in whatever order the database returns them.
order_by_created_at_desc(store, ids) ==
    {s \in Perms(ids) :
        \A i, j \in 1..Len(s) :
            i < j => store[s[i]].created_at >= store[s[j]].created_at}

PostListSerializer(store, s) ==
    [i \in 1..Len(s) |->
        [id |-> s[i], title |-> store[s[i]].title, author |-> store[s[i]].author]]

PostDetailSerializer(store, id) ==
    [id |-> id, title |-> store[id].title, body |-> store[id].body,
     author |-> store[id].author, is_published |-> store[id].is_published]

\* the clock never runs backwards: a new row's created_at is not before
\* that of any row created before it, stored still or deleted
Now(latest) == IF latest = 0 THEN {1} ELSE {latest, latest + 1}

perform_create_no_author(caller, validated, id, now) ==
    Post_save(Apply([id |-> id, author |-> Anonymous, title |-> "", body |-> "",
                     slug |-> "", is_published |-> FALSE, created_at |-> now],
                    validated))

\* perform_create: serializer.save(author=self.request.user); the row saved
\* is what self.created_instance remembers.
perform_create(caller, validated, id, now) ==
    Post_save(Apply([id |-> id, author |-> caller, title |-> "", body |-> "",
                     slug |-> "", is_published |-> FALSE, created_at |-> now],
                    validated))

post_url(instance) == <<"/posts/", instance.slug, "-", instance.id, "/">>

\* create: the response body built from self.created_instance
create_response(instance) ==
    [url |-> post_url(instance), message |-> "Post created successfully."]

\* update, which partial_update is bound to as well: super().update() reads
\* kwargs.pop("partial", False), and nothing puts "partial" into kwargs.
update_partial(method) == FALSE

update_response == [message |-> "Post updated successfully."]

\* id is the row the request addresses; the response to a create carries the
\* identifier of the row the request stored.
Request(op, method, caller, id, data) ==
    [op |-> op, method |-> method, caller |-> caller, id |-> id, data |-> data]

Response(req, status, body) ==
    [op |-> req.op, method |-> req.method, caller |-> req.caller,
     id |-> req.id, data |-> req.data, status |-> status, body |-> body]

NoBody == <<>>

PostIds == 1..MaxPosts

\* an anonymous caller, a non-staff user and a staff user
PostCallers == {Anonymous, 1, 3}

UNCHANGED_comments == UNCHANGED <<comments, commentSeq>>
UNCHANGED_posts == UNCHANGED <<posts, postSeq, clock>>
UNCHANGED_conc == UNCHANGED <<inflight, view>>

\* GET /posts/
PostList(caller) ==
    LET req == Request("list", "GET", caller, 0, <<>>) IN
    /\ CanHandle
    /\ IF ~PostViewSet_permission_classes(caller, "GET", "list")
       THEN last' = Response(req, PermissionDenied(caller), NoBody)
       ELSE \E s \in order_by_created_at_desc(posts, get_queryset(posts, caller)) :
                last' = Response(req, "OK", PostListSerializer(posts, s))
    /\ UNCHANGED_posts /\ UNCHANGED_comments /\ UNCHANGED_conc

\* GET /posts/{id}/
PostRetrieve(caller, id) ==
    LET req == Request("retrieve", "GET", caller, id, <<>>) IN
    /\ CanHandle
    /\ last' =
        IF ~PostViewSet_permission_classes(caller, "GET", "retrieve")
        THEN Response(req, PermissionDenied(caller), NoBody)
        ELSE IF id \notin get_queryset(posts, caller)
        THEN Response(req, "NotFound", NoBody)
        ELSE Response(req, "OK", PostDetailSerializer(posts, id))
    /\ UNCHANGED_posts /\ UNCHANGED_comments /\ UNCHANGED_conc

\* POST /posts/
PostCreate(caller, data) ==
    LET req == Request("create", "POST", caller, 0, data) IN
    /\ CanHandle
    /\ postSeq < MaxPosts
    /\ IF ~PostViewSet_permission_classes(caller, "POST", "create")
       THEN /\ last' = Response(req, PermissionDenied(caller), NoBody)
            /\ UNCHANGED_posts
       ELSE IF ~PostWriteSerializer_is_valid(data, FALSE)
       THEN /\ last' = Response(req, "BadRequest", NoBody)
            /\ UNCHANGED_posts
       ELSE \E now \in Now(clock) :
            LET id == postSeq + 1
                created_instance ==
                    perform_create(caller,
                        PostWriteSerializer_validated_data(data, caller), id, now)
            IN  /\ posts' = (id :> created_instance) @@ posts
                /\ postSeq' = id
                /\ clock' = now
                /\ last' = [Response(req, "Created", create_response(created_instance))
                                EXCEPT !.id = id]
    /\ UNCHANGED_comments /\ UNCHANGED_conc

\* update: the instance get_object read, with the validated fields set on
\* it, is what serializer.save() writes
update_instance(instance, validated) == Post_save(Apply(instance, validated))

PostUpdateOp(method) == IF method = "PATCH" THEN "partial_update" ELSE "update"

\* the response of an update that ends before perform_update, if it does
PostUpdateRefused(req) ==
    IF ~PostViewSet_permission_classes(req.caller, req.method, req.op)
    THEN {Response(req, PermissionDenied(req.caller), NoBody)}
    ELSE IF req.id \notin get_queryset(posts, req.caller)
    THEN {Response(req, "NotFound", NoBody)}
    ELSE IF ~PostWriteSerializer_is_valid(req.data, update_partial(req.method))
    THEN {Response(req, "BadRequest", NoBody)}
    ELSE {}

\* PUT /posts/{id}/ and PATCH /posts/{id}/, no other request running between
\* get_object and serializer.save()
PostUpdate(caller, method, id, data) ==
    LET req == Request(PostUpdateOp(method), method, caller, id, data) IN
    /\ CanHandle
    /\ IF PostUpdateRefused(req) # {}
       THEN /\ last' \in PostUpdateRefused(req)
            /\ UNCHANGED_posts
       ELSE /\ posts' = Model_save(posts,
                    update_instance(posts[id],
                        PostWriteSerializer_validated_data(data, caller)))
            /\ UNCHANGED <<postSeq, clock>>
            /\ last' = Response(req, "OK", update_response)
    /\ UNCHANGED_comments /\ UNCHANGED_conc

\* PUT or PATCH /posts/{id}/ up to perform_update: get_object has read the
\* row, the body is valid; other requests run before the save
PostUpdateRead(caller, method, id, data) ==
    LET req == Request(PostUpdateOp(method), method, caller, id, data) IN
    /\ CanHandle
    /\ PostUpdateRefused(req) = {}
    /\ inflight' = Hold(Held(req, posts[id]))
    /\ UNCHANGED <<last, view>>
    /\ UNCHANGED_posts /\ UNCHANGED_comments

\* perform_update of a request that was held: serializer.save()
PostUpdateSave(h) ==
    /\ h \in HeldRequests
    /\ h.req.op \in {"update", "partial_update"}
    /\ LET req == h.req IN
        /\ posts' = Model_save(posts,
                        update_instance(h.instance,
                            PostWriteSerializer_validated_data(req.data, req.caller)))
        /\ last' = Response(req, "OK", update_response)
    /\ inflight' = Release(h)
    /\ UNCHANGED <<postSeq, clock, view>>
    /\ UNCHANGED_comments

\* the response of a delete that ends before perform_destroy, if it does
PostDestroyRefused(req) ==
    IF ~PostViewSet_permission_classes(req.caller, "DELETE", "destroy")
    THEN {Response(req, PermissionDenied(req.caller), NoBody)}
    ELSE IF req.id \notin get_queryset(posts, req.caller)
    THEN {Response(req, "NotFound", NoBody)}
    ELSE {}

\* DELETE /posts/{id}/, no other request running between get_object and
\* instance.delete()
PostDestroy(caller, id) ==
    LET req == Request("destroy", "DELETE", caller, id, <<>>) IN
    /\ CanHandle
    /\ IF PostDestroyRefused(req) # {}
       THEN /\ last' \in PostDestroyRefused(req)
            /\ UNCHANGED_posts
       ELSE /\ posts' = Model_delete(posts, id)
            /\ UNCHANGED <<postSeq, clock>>
            /\ last' = Response(req, "NoContent", NoBody)
    /\ UNCHANGED_comments /\ UNCHANGED_conc

\* DELETE /posts/{id}/ up to perform_destroy: get_object has read the row
PostDestroyRead(caller, id) ==
    LET req == Request("destroy", "DELETE", caller, id, <<>>) IN
    /\ CanHandle
    /\ PostDestroyRefused(req) = {}
    /\ inflight' = Hold(Held(req, posts[id]))
    /\ UNCHANGED <<last, view>>
    /\ UNCHANGED_posts /\ UNCHANGED_comments

\* perform_destroy of a request that was held: instance.delete()
PostDestroyDelete(h) ==
    /\ h \in HeldRequests
    /\ h.req.op = "destroy"
    /\ posts' = Model_delete(posts, h.req.id)
    /\ last' = Response(h.req, "NoContent", NoBody)
    /\ inflight' = Release(h)
    /\ UNCHANGED <<postSeq, clock, view>>
    /\ UNCHANGED_comments

----------------------------------------------------------------------------
(* models.Comment and serializers.CommentSerializer *)

CommentData ==
    { [post |-> 1, body |-> "x"],
      [post |-> 1, body |-> "x", is_approved |-> TRUE],
      [body |-> "y", is_approved |-> TRUE],
      [body |-> "y", is_approved |-> FALSE],
      [is_approved |-> TRUE],
      [body |-> ""] }

\* CommentSerializer.is_valid: post and body are required (unless the update
\* is partial), the post must exist and the body may not be blank.
CommentSerializer_is_valid(store, data, partial) ==
    /\ partial \/ (Has(data, "post") /\ Has(data, "body"))
    /\ Has(data, "post") => data.post \in DOMAIN store
    /\ Has(data, "body") => data.body # ""

\* CommentSerializer(instance).data
CommentSerializer(row) ==
    [id |-> row.id, post |-> row.post, author |-> row.author,
     body |-> row.body, is_approved |-> row.is_approved]

\* permissions.IsAuthenticated
IsAuthenticated(caller) == is_authenticated(caller)

\* permissions.IsAuthorOrAdmin.has_object_permission
IsAuthorOrAdmin(caller, obj) == is_staff(caller) \/ obj.author = caller

----------------------------------------------------------------------------
(* CommentCreateView *)

\* permission_classes = [permissions.IsAuthenticated]
CommentCreateView_permission_classes(caller) == IsAuthenticated(caller)

\* perform_create: serializer.save(author=self.request.user)
CommentCreateView_perform_create(caller, validated, id) ==
    Apply([id |-> id, post |-> 0, author |-> caller, body |-> "",
           is_approved |-> FALSE], validated)

\* POST /comments/
CommentCreate(caller, data) ==
    LET req == Request("comment_create", "POST", caller, 0, data) IN
    /\ CanHandle
    /\ commentSeq < MaxComments
    /\ IF ~CommentCreateView_permission_classes(caller)
       THEN /\ last' = Response(req, PermissionDenied(caller), NoBody)
            /\ UNCHANGED_comments
       ELSE IF ~CommentSerializer_is_valid(posts, data, FALSE)
       THEN /\ last' = Response(req, "BadRequest", NoBody)
            /\ UNCHANGED_comments
       ELSE LET id == commentSeq + 1
                row == CommentCreateView_perform_create(caller, data, id)
            IN  /\ comments' = (id :> row) @@ comments
                /\ commentSeq' = id
                /\ last' = [Response(req, "Created", CommentSerializer(row))
                                EXCEPT !.id = id]
    /\ UNCHANGED_posts /\ UNCHANGED_conc

----------------------------------------------------------------------------
(* CommentDetailView *)

CommentDetailView_permission_classes_AllowAny(caller, obj) == TRUE

\* permission_classes = [IsAuthorOrAdmin]
CommentDetailView_permission_classes(caller, obj) == IsAuthorOrAdmin(caller, obj)

\* UpdateModelMixin.partial_update passes partial=True on to update
UpdateModelMixin_partial(method) == method = "PATCH"

perform_update_keep_is_approved(caller, validated) == validated

\* perform_update: a non-staff caller's is_approved is deleted from
\* validated_data before serializer.save()
perform_update(caller, validated) ==
    IF ~is_staff(caller) /\ Has(validated, "is_approved")
    THEN Without(validated, "is_approved")
    ELSE validated

CommentIds == 1..MaxComments

CommentUpdateOp(method) ==
    IF method = "PATCH" THEN "comment_partial_update" ELSE "comment_update"

\* the response of a request of the comment detail view that ends at
\* get_object, if it does
CommentDetailRefused(req) ==
    IF req.id \notin DOMAIN comments
    THEN {Response(req, "NotFound", NoBody)}
    ELSE IF ~CommentDetailView_permission_classes(req.caller, comments[req.id])
    THEN {Response(req, PermissionDenied(req.caller), NoBody)}
    ELSE {}

\* GET /comments/{id}/
CommentRetrieve(caller, id) ==
    LET req == Request("comment_retrieve", "GET", caller, id, <<>>) IN
    /\ CanHandle
    /\ IF CommentDetailRefused(req) # {}
       THEN last' \in CommentDetailRefused(req)
       ELSE last' = Response(req, "OK", CommentSerializer(comments[id]))
    /\ UNCHANGED_comments /\ UNCHANGED_posts /\ UNCHANGED_conc

\* the response of an update that ends before perform_update, if it does
CommentUpdateRefused(req) ==
    IF CommentDetailRefused(req) # {}
    THEN CommentDetailRefused(req)
    ELSE IF ~CommentSerializer_is_valid(posts, req.data,
                                        UpdateModelMixin_partial(req.method))
    THEN {Response(req, "BadRequest", NoBody)}
    ELSE {}

\* PUT /comments/{id}/ and PATCH /comments/{id}/, no other request running
\* between get_object and serializer.save()
CommentUpdate(caller, method, id, data) ==
    LET req == Request(CommentUpdateOp(method), method, caller, id, data) IN
    /\ CanHandle
    /\ IF CommentUpdateRefused(req) # {}
       THEN /\ last' \in CommentUpdateRefused(req)
            /\ UNCHANGED_comments
       ELSE LET row == Apply(comments[id], perform_update(caller, data))
            IN  /\ comments' = Model_save(comments, row)
                /\ UNCHANGED commentSeq
                /\ last' = Response(req, "OK", CommentSerializer(row))
    /\ UNCHANGED_posts /\ UNCHANGED_conc

\* PUT or PATCH /comments/{id}/ up to perform_update: get_object has read
\* the row and checked the permission on it, the body is valid; other
\* requests run before the save
CommentUpdateRead(caller, method, id, data) ==
    LET req == Request(CommentUpdateOp(method), method, caller, id, data) IN
    /\ CanHandle
    /\ CommentUpdateRefused(req) = {}
    /\ inflight' = Hold(Held(req, comments[id]))
    /\ UNCHANGED <<last, view>>
    /\ UNCHANGED_comments /\ UNCHANGED_posts

\* perform_update of a request that was held: is_approved is dropped for a
\* non-staff caller, then serializer.save() sets the validated fields on the
\* instance get_object read and writes the whole row
CommentUpdateSave(h) ==
    /\ h \in HeldRequests
    /\ h.req.op \in {"comment_update", "comment_partial_update"}
    /\ LET req == h.req
           row == Apply(h.instance, perform_update(req.caller, req.data))
       IN  /\ comments' = Model_save(comments, row)
           /\ last' = Response(req, "OK", CommentSerializer(row))
    /\ inflight' = Release(h)
    /\ UNCHANGED <<commentSeq, view>>
    /\ UNCHANGED_posts

\* DELETE /comments/{id}/, no other request running between get_object and
\* instance.delete()
CommentDestroy(caller, id) ==
    LET req == Request("comment_destroy", "DELETE", caller, id, <<>>) IN
    /\ CanHandle
    /\ IF CommentDetailRefused(req) # {}
       THEN /\ last' \in CommentDetailRefused(req)
            /\ UNCHANGED_comments
       ELSE /\ comments' = Model_delete(comments, id)
            /\ UNCHANGED commentSeq
            /\ last' = Response(req, "NoContent", NoBody)
    /\ UNCHANGED_posts /\ UNCHANGED_conc

\* DELETE /comments/{id}/ up to perform_destroy: get_object has read the row
\* and checked the permission on it
CommentDestroyRead(caller, id) ==
    LET req == Request("comment_destroy", "DELETE", caller, id, <<>>) IN
    /\ CanHandle
    /\ CommentDetailRefused(req) = {}
    /\ inflight' = Hold(Held(req, comments[id]))
    /\ UNCHANGED <<last, view>>
    /\ UNCHANGED_comments /\ UNCHANGED_posts

\* perform_destroy of a request that was held: instance.delete()
CommentDestroyDelete(h) ==
    /\ h \in HeldRequests
    /\ h.req.op = "comment_destroy"
    /\ comments' = Model_delete(comments, h.req.id)
    /\ last' = Response(h.req, "NoContent", NoBody)
    /\ inflight' = Release(h)
    /\ UNCHANGED <<commentSeq, view>>
    /\ UNCHANGED_posts

----------------------------------------------------------------------------
(* The specifications. A request runs whole, or it is held between the     *)
(* read of its row and its write while other requests run. Reads of two    *)
(* requests commute, so every interleaving of the reads and writes of      *)
(* MaxRequests requests is one of these behaviours.                        *)

NoRequest == [op |-> "none", method |-> "", caller |-> Anonymous, id |-> 0,
              data |-> <<>>, status |-> "", body |-> <<>>]

Init ==
    /\ posts = <<>>
    /\ postSeq = 0
    /\ comments = <<>>
    /\ commentSeq = 0
    /\ clock = 0
    /\ last = NoRequest
    /\ inflight = <<>>
    /\ view = <<>>

\* the post views
Next ==
    \/ \E caller \in PostCallers : PostList(caller)
    \/ \E caller \in PostCallers, id \in PostIds : PostRetrieve(caller, id)
    \/ \E caller \in PostCallers, data \in PostData : PostCreate(caller, data)
    \/ \E caller \in PostCallers, method \in {"PUT", "PATCH"}, id \in PostIds,
          data \in PostData : PostUpdate(caller, method, id, data)
    \/ \E caller \in PostCallers, id \in PostIds : PostDestroy(caller, id)
    \/ \E caller \in PostCallers, method \in {"PUT", "PATCH"}, id \in PostIds,
          data \in PostData : PostUpdateRead(caller, method, id, data)
    \/ \E h \in HeldRequests : PostUpdateSave(h)
    \/ \E caller \in PostCallers, id \in PostIds : PostDestroyRead(caller, id)
    \/ \E h \in HeldRequests : PostDestroyDelete(h)

Spec == Init /\ [][Next]_vars

\* a published post of user 1 to comment on
OnePost ==
    1 :> perform_create(1, [title |-> "T", body |-> "B", is_published |-> TRUE], 1, 1)

InitComments ==
    /\ posts = OnePost
    /\ postSeq = 1
    /\ comments = <<>>
    /\ commentSeq = 0
    /\ clock = 1
    /\ last = NoRequest
    /\ inflight = <<>>
    /\ view = <<>>

\* the comment views
NextComments ==
    \/ \E caller \in Callers, data \in CommentData : CommentCreate(caller, data)
    \/ \E caller \in Callers, id \in CommentIds : CommentRetrieve(caller, id)
    \/ \E caller \in Callers, method \in {"PUT", "PATCH"}, id \in CommentIds,
          data \in CommentData : CommentUpdate(caller, method, id, data)
    \/ \E caller \in Callers, id \in CommentIds : CommentDestroy(caller, id)
    \/ \E caller \in Callers, method \in {"PUT", "PATCH"}, id \in CommentIds,
          data \in CommentData : CommentUpdateRead(caller, method, id, data)
    \/ \E h \in HeldRequests : CommentUpdateSave(h)
    \/ \E caller \in Callers, id \in CommentIds : CommentDestroyRead(caller, id)
    \/ \E h \in HeldRequests : CommentDestroyDelete(h)

SpecComments == InitComments /\ [][NextComments]_vars

----------------------------------------------------------------------------
(* Post creates handled at the same time: every request has a view         *)
(* instance of its own (as_view builds one per request) and takes its      *)
(* steps between the steps of the others.                                  *)

NoInstance == <<>>

ConcPostData ==
    { [title |-> "T", body |-> "B"],
      [title |-> "U", body |-> "B"],
      [title |-> "", body |-> "B"] }

set_created_instance_on_class(v, r, instance) ==
    [q \in DOMAIN v |-> [v[q] EXCEPT !.created_instance = instance]]

\* perform_create: self.created_instance = ..., an attribute of the view
\* instance of the request
set_created_instance(v, r, instance) ==
    [v EXCEPT ![r].created_instance = instance]

\* POST /posts/ up to perform_create: the view instance is built, the
\* permission is checked and the serializer validates the body
ConcPostCreateBegin(r, caller, data) ==
    LET req == Request("create", "POST", caller, 0, data) IN
    /\ r \in FreeSlots
    /\ postSeq + Cardinality(DOMAIN inflight) < MaxPosts
    /\ IF ~PostViewSet_permission_classes(caller, "POST", "create")
       THEN /\ last' = Response(req, PermissionDenied(caller), NoBody)
            /\ UNCHANGED <<inflight, view>>
       ELSE IF ~PostWriteSerializer_is_valid(data, FALSE)
       THEN /\ last' = Response(req, "BadRequest", NoBody)
            /\ UNCHANGED <<inflight, view>>
       ELSE /\ inflight' = (r :> [pc |-> "perform_create", req |-> req, stored |-> 0])
                                @@ inflight
            /\ view' = (r :> [created_instance |-> NoInstance]) @@ view
            /\ UNCHANGED last
    /\ UNCHANGED_posts /\ UNCHANGED_comments

\* perform_create: the row is inserted and remembered
ConcPostPerformCreate(r) ==
    /\ r \in DOMAIN inflight
    /\ inflight[r].pc = "perform_create"
    /\ \E now \in Now(clock) :
        LET req == inflight[r].req
            id == postSeq + 1
            instance ==
                perform_create(req.caller,
                    PostWriteSerializer_validated_data(req.data, req.caller), id, now)
        IN  /\ posts' = (id :> instance) @@ posts
            /\ postSeq' = id
            /\ clock' = now
            /\ view' = set_created_instance(view, r, instance)
            /\ inflight' = [inflight EXCEPT ![r].pc = "respond", ![r].stored = id]
    /\ UNCHANGED last
    /\ UNCHANGED_comments

\* create, after super().create(): the response body is built from
\* self.created_instance
ConcPostCreateRespond(r) ==
    /\ r \in DOMAIN inflight
    /\ inflight[r].pc = "respond"
    /\ last' = [Response(inflight[r].req, "Created",
                         create_response(view[r].created_instance))
                    EXCEPT !.id = inflight[r].stored]
    /\ inflight' = Drop(inflight, r)
    /\ view' = Drop(view, r)
    /\ UNCHANGED_posts /\ UNCHANGED_comments

NextConcCreate ==
    \/ \E r \in Slots, caller \in PostCallers, data \in ConcPostData :
          ConcPostCreateBegin(r, caller, data)
    \/ \E r \in Slots : ConcPostPerformCreate(r)
    \/ \E r \in Slots : ConcPostCreateRespond(r)

SpecConcCreate == Init /\ [][NextConcCreate]_vars

----------------------------------------------------------------------------
(* Claims about the post views, checked under Spec *)

Denied == {"Forbidden", "NotAuthenticated"}

PostWriteOps == {"update", "partial_update", "destroy"}

\* C1: a stored post is addressable by the read operations (it is in the
\* caller's list, and the caller's retrieve of it succeeds) exactly when the
\* caller is staff or the post is published; a retrieve of any other post
\* ends in NotFound, never in a denial.
C1_Addressable ==
    /\ last.op = "retrieve" =>
        /\ last.status \in {"OK", "NotFound"}
        /\ last.status = "OK" <=>
            /\ last.id \in DOMAIN posts
            /\ is_staff(last.caller) \/ posts[last.id].is_published
    /\ last.op = "list" =>
        /\ last.status = "OK"
        /\ {last.body[i].id : i \in DOMAIN last.body} =
            {id \in DOMAIN posts : is_staff(last.caller) \/ posts[id].is_published}

\* the non-staff author of an unpublished post asked for it and got NotFound
C1_Witness ==
    /\ last.op = "retrieve"
    /\ last.id \in DOMAIN posts
    /\ posts[last.id].author = last.caller
    /\ ~is_staff(last.caller)
    /\ ~posts[last.id].is_published
    /\ last.status = "NotFound"

\* the step answers a request: one that ran whole, or a held one that wrote
Answers == BagCardinality(inflight') <= BagCardinality(inflight)

\* C2: a create by an authenticated non-staff caller with non-empty title and
\* body succeeds: exactly one post is added, with author = caller and
\* is_published = false, and the response body has the two fields url and
\* message.
C2_Create ==
    [][ ( /\ Answers
          /\ last'.op = "create"
          /\ is_authenticated(last'.caller) /\ ~is_staff(last'.caller)
          /\ Has(last'.data, "title") /\ last'.data.title # ""
          /\ Has(last'.data, "body") /\ last'.data.body # "" )
        => ( /\ last'.status = "Created"
             /\ DOMAIN last'.body = {"url", "message"}
             /\ last'.id \notin DOMAIN posts
             /\ DOMAIN posts' = DOMAIN posts \cup {last'.id}
             /\ \A i \in DOMAIN posts : posts'[i] = posts[i]
             /\ posts'[last'.id].author = last'.caller
             /\ posts'[last'.id].title = last'.data.title
             /\ posts'[last'.id].body = last'.data.body
             /\ posts'[last'.id].is_published = FALSE ) ]_vars

\* a non-staff caller asked for a published post and the post created is not
C2_Witness ==
    /\ last.op = "create"
    /\ last.caller = 1
    /\ Has(last.data, "is_published") /\ last.data.is_published
    /\ last.status = "Created"
    /\ posts[last.id].author = 1
    /\ ~posts[last.id].is_published

\* C3: an update (PUT or PATCH) or a delete of a post by a non-staff caller,
\* the post's author included, is denied and changes no stored post; a stored
\* post changes or goes only in an update or delete made by a staff caller.
C3_StaffOnlyWrites ==
    [][ /\ (last'.op \in PostWriteOps /\ ~is_staff(last'.caller))
            => (last'.status \in Denied /\ posts' = posts)
        /\ \A i \in DOMAIN posts :
            (i \notin DOMAIN posts' \/ posts'[i] # posts[i])
            => (last'.op \in PostWriteOps /\ is_staff(last'.caller)) ]_vars

\* the non-staff author of a published post sent an update and was refused
C3_Witness ==
    /\ last.op \in {"update", "partial_update"}
    /\ last.id \in DOMAIN posts
    /\ posts[last.id].author = last.caller
    /\ posts[last.id].is_published
    /\ is_authenticated(last.caller) /\ ~is_staff(last.caller)
    /\ last.status = "Forbidden"

\* C4: a PATCH by a staff caller that supplies a subset of the writable
\* fields succeeds, stores the supplied fields, and returns the fixed
\* message only.
C4_PatchSubset ==
    ( /\ last.op = "partial_update"
      /\ is_staff(last.caller)
      /\ last.id \in DOMAIN posts
      /\ Has(last.data, "title") => last.data.title # ""
      /\ Has(last.data, "body") => last.data.body # "" )
    => ( /\ last.status = "OK"
         /\ last.body = update_response
         /\ \A k \in DOMAIN last.data : posts[last.id][k] = last.data[k] )

\* C8: the list is ordered by creation time descending, posts of equal
\* creation time by identifier descending.
C8_ListOrder ==
    last.op = "list" =>
        \A i, j \in DOMAIN last.body :
            i < j =>
                LET a == posts[last.body[i].id]
                    b == posts[last.body[j].id]
                IN  \/ a.created_at > b.created_at
                    \/ a.created_at = b.created_at /\ a.id > b.id

----------------------------------------------------------------------------
(* Claims about the comment views, checked under SpecComments *)

CommentDetailOps ==
    {"comment_retrieve", "comment_update", "comment_partial_update", "comment_destroy"}

CommentUpdateOps == {"comment_update", "comment_partial_update"}

\* C5: when a non-staff owner updates their comment with a valid field set
\* that holds is_approved (true or false) and body, the request is not
\* rejected, the stored
\* body is the new one and the stored is_approved is the one the comment had
\* when the request read it (never the caller's value as such): both when
\* the request runs whole and when its save comes after other requests.
C5_SilentDrop ==
    [][ /\ ( /\ inflight' = inflight
             /\ last'.op \in CommentUpdateOps
             /\ last'.id \in DOMAIN comments
             /\ comments[last'.id].author = last'.caller
             /\ ~is_staff(last'.caller)
             /\ Has(last'.data, "is_approved") /\ Has(last'.data, "body")
             /\ CommentSerializer_is_valid(posts, last'.data,
                                           last'.op = "comment_partial_update") )
           => ( /\ last'.status = "OK"
                /\ comments'[last'.id].body = last'.data.body
                /\ comments'[last'.id].is_approved = comments[last'.id].is_approved )
        /\ \A h \in HeldRequests :
            ( /\ CopiesIn(h, inflight') < CopiesIn(h, inflight)
              /\ h.req.op \in CommentUpdateOps
              /\ ~is_staff(h.req.caller)
              /\ Has(h.req.data, "is_approved")
              /\ Has(h.req.data, "body") )
            => ( /\ last' = Response(h.req, "OK", last'.body)
                 /\ h.req.id \in DOMAIN comments'
                 /\ comments'[h.req.id].body = h.req.data.body
                 /\ comments'[h.req.id].is_approved = h.instance.is_approved ) ]_vars

\* a non-staff owner sent is_approved = true with a new body: the body is
\* stored, the comment is still unapproved
C5_Witness ==
    /\ last.op = "comment_partial_update"
    /\ last.id \in DOMAIN comments
    /\ comments[last.id].author = last.caller
    /\ ~is_staff(last.caller)
    /\ Has(last.data, "is_approved") /\ last.data.is_approved
    /\ last.status = "OK"
    /\ comments[last.id].body = "y"
    /\ ~comments[last.id].is_approved

\* C6: comment create is permitted exactly for authenticated callers, and the
\* comment it stores has author = caller and is_approved = false whatever the
\* request holds.
C6_CreateUnapproved ==
    last.op = "comment_create" =>
        /\ last.status \in Denied <=> ~is_authenticated(last.caller)
        /\ last.status = "Created" =>
            /\ last.id \in DOMAIN comments
            /\ comments[last.id].author = last.caller
            /\ comments[last.id].is_approved = FALSE

\* C7: retrieve, update and delete of a stored comment are permitted exactly
\* when the caller is staff or the comment's author; any other caller is
\* denied (Forbidden when authenticated), gets no comment back and leaves the
\* table as it was. Only a permitted request gets past get_object, and a
\* stored comment is changed or removed only by a request of a staff caller
\* or of its author.
C7_AuthorOrAdmin ==
    [][ /\ (inflight' = inflight /\ last'.op \in CommentDetailOps
                /\ last'.id \in DOMAIN comments)
           => IF is_staff(last'.caller) \/ comments[last'.id].author = last'.caller
              THEN last'.status \notin Denied
              ELSE /\ last'.status = PermissionDenied(last'.caller)
                   /\ last'.body = NoBody
                   /\ comments' = comments
        /\ \A h \in BagToSet(inflight') :
              \/ is_staff(h.req.caller)
              \/ h.instance.author = h.req.caller
        /\ \A id \in DOMAIN comments :
              (id \notin DOMAIN comments' \/ comments'[id] # comments[id])
              => ( /\ last'.op \in CommentDetailOps
                   /\ last'.id = id
                   /\ \/ is_staff(last'.caller)
                      \/ comments[id].author = last'.caller ) ]_vars

\* an authenticated user who is neither staff nor the author sent a PATCH
\* and got Forbidden
C7_Witness ==
    /\ last.op = "comment_partial_update"
    /\ last.id \in DOMAIN comments
    /\ is_authenticated(last.caller) /\ ~is_staff(last.caller)
    /\ comments[last.id].author # last.caller
    /\ last.status = "Forbidden"

----------------------------------------------------------------------------
(* Claims about requests handled at the same time: C9 under SpecComments,  *)
(* C10 under SpecConcCreate                                                *)

\* C9: the stored is_approved of a comment changes only in the save of an
\* update made by a staff caller, also when updates of the same comment
\* overlap.
C9_StaffOnlyApproval ==
    [][ \A id \in DOMAIN comments :
            (id \in DOMAIN comments'
                /\ comments'[id].is_approved # comments[id].is_approved)
            => ( /\ last'.op \in CommentUpdateOps
                 /\ last'.id = id
                 /\ is_staff(last'.caller) ) ]_vars

\* C10: the url of a successful post create is /posts/{slug}-{id}/ of the
\* post that request stored, whatever other creates are in flight; a create
\* that fails validation stores no post and returns no url.
C10_CreatedUrl ==
    [][ /\ (last'.op = "create" /\ last'.status = "Created")
            => ( /\ last'.id \in DOMAIN posts'
                 /\ last'.body.url =
                        <<"/posts/", posts'[last'.id].slug, "-", last'.id, "/">>
                 /\ posts'[last'.id].author = last'.caller
                 /\ posts'[last'.id].slug = Slugify(last'.data.title) )
        /\ (last'.op = "create" /\ last'.status = "BadRequest")
            => last'.body = NoBody
        /\ (last' # last /\ last'.status # "Created")
            => posts' = posts ]_vars

\* a create answered while the create that stored the post before it was
\* still in flight, its row stored and its response not yet built
C10_Witness ==
    /\ last.op = "create"
    /\ last.status = "Created"
    /\ last.id = 2
    /\ \E r \in DOMAIN inflight :
        /\ inflight[r].pc = "respond"
        /\ inflight[r].stored = 1
        /\ inflight[r].req.data.title # last.data.title

====
